---- MODULE Spec2Model ----
(***************************************************************************)
(* Model of the video-production core: the outline parser                  *)
(* (src/core/parser.py), the module registry (src/core/base_module.py),    *)
(* the engine's build pipeline (src/core/engine.py) and the command line   *)
(* entry point (src/main.py).                                              *)
(*                                                                         *)
(* Text.  A Python str is a sequence of symbols.  A symbol is a one        *)
(* character string for punctuation, blanks and digits ("#", " ", "[",     *)
(* "]", ":", "-", the double quote, "0".."9") or an atomic word of letters *)
(* ("Intro", "TEXT", "manim").  The outline file is the sequence of its    *)
(* lines, i.e. its content split at "\n".  The alphabet has no ".", no     *)
(* sign, no exponent and none of the words "inf"/"nan", so float() accepts *)
(* exactly the blank-padded non-empty digit strings.                       *)
(*                                                                         *)
(* Values.  None is [t |-> "none"], a str is [t |-> "str", s |-> symbols], *)
(* an int/float is [t |-> "num", n |-> integer], a registered module       *)
(* object is [t |-> "module", ...].                                        *)
(***************************************************************************)
EXTENDS Integers, Sequences, FiniteSets, TLC

VARIABLES
    pc,         \* position of the running program / of the parser's client
    outline,    \* the outline file: [exists, lines]
    scenes,     \* OutlineParser.scenes
    results,    \* the calls of the client: what each parse() returned or
                \* raised, the class and the outcome of each register()
    modules,    \* ModuleRegistry.modules: tag -> module object
    regIdx,     \* _register_modules: number of module classes handled
    plan,       \* module names printed by _show_build_plan
    idx,        \* _render_scenes: number of scenes whose iteration ended
    inflight,   \* the render call in progress: 0 or the scene's index
    rendered,   \* _render_scenes: the list `rendered`
    log,        \* console events of the run, in order
    exitCode    \* process exit status: -1 while running

vars == <<pc, outline, scenes, results, modules, regIdx, plan, idx, inflight,
          rendered, log, exitCode>>

-----------------------------------------------------------------------------
(* Bounds of the model                                                     *)

MaxSections == 2

MaxScenes == 3

MaxParseCalls == 2

MaxRegisterCalls == 3

-----------------------------------------------------------------------------
(* Python values                                                           *)

None == [t |-> "none"]

Str(s) == [t |-> "str", s |-> s]

Num(n) == [t |-> "num", n |-> n]

\* dict.get(key): the value stored under key, None when absent
DictGet(d, key) == IF key \in DOMAIN d THEN d[key] ELSE None

\* dict[key] = value
DictSet(d, key, value) ==
    [k \in (DOMAIN d) \cup {key} |-> IF k = key THEN value ELSE d[k]]

\* the value returned by dict.pop(key, default)
DictPop(d, key, default) == IF key \in DOMAIN d THEN d[key] ELSE default

EmptyDict == [k \in {} |-> None]

-----------------------------------------------------------------------------
(* str methods                                                             *)

Digits == {"0", "1", "2", "3", "4", "5", "6", "7", "8", "9"}

DigitVal(c) ==
    CASE c = "0" -> 0 [] c = "1" -> 1 [] c = "2" -> 2 [] c = "3" -> 3
      [] c = "4" -> 4 [] c = "5" -> 5 [] c = "6" -> 6 [] c = "7" -> 7
      [] c = "8" -> 8 [] c = "9" -> 9

Drop(s, n) == SubSeq(s, n + 1, Len(s))

StartsWith(s, p) == Len(s) >= Len(p) /\ SubSeq(s, 1, Len(p)) = p

\* str.strip(chars), by its two halves
RECURSIVE LStripChars(_, _)
LStripChars(s, cs) ==
    IF s # <<>> /\ Head(s) \in cs THEN LStripChars(Tail(s), cs) ELSE s

RECURSIVE RStripChars(_, _)
RStripChars(s, cs) ==
    IF s # <<>> /\ s[Len(s)] \in cs
    THEN RStripChars(SubSeq(s, 1, Len(s) - 1), cs) ELSE s

StripChars(s, cs) == RStripChars(LStripChars(s, cs), cs)

Whitespace == {" "}

Strip(s) == StripChars(s, Whitespace)

\* str.split(sep, maxsplit) for a one-symbol separator; maxsplit < 0: no limit
RECURSIVE SplitAcc(_, _, _, _, _)
SplitAcc(s, sep, maxsplit, cur, acc) ==
    IF s = <<>> THEN Append(acc, cur)
    ELSE IF Head(s) = sep /\ maxsplit # 0
         THEN SplitAcc(Tail(s), sep, maxsplit - 1, <<>>, Append(acc, cur))
         ELSE SplitAcc(Tail(s), sep, maxsplit, Append(cur, Head(s)), acc)

Split(s, sep) == SplitAcc(s, sep, -1, <<>>, <<>>)

SplitOnce(s, sep) == SplitAcc(s, sep, 1, <<>>, <<>>)

Contains(s, c) == \E i \in 1..Len(s) : s[i] = c

\* the value of a digit string
RECURSIVE DecimalValue(_)
DecimalValue(s) ==
    IF s = <<>> THEN 0
    ELSE 10 * DecimalValue(SubSeq(s, 1, Len(s) - 1)) + DigitVal(s[Len(s)])

\* float(s): [ok |-> FALSE] stands for ValueError
Float(s) ==
    LET body == Strip(s)
    IN  IF body # <<>> /\ \A i \in 1..Len(body) : body[i] \in Digits
        THEN [ok |-> TRUE, n |-> DecimalValue(body)]
        ELSE [ok |-> FALSE, n |-> 0]

-----------------------------------------------------------------------------
(* OutlineParser                                                           *)

HeadingMarker == <<"#", "#", " ">>

\* re.split(r'\n## ', content): a new piece starts at every line but the
\* first that begins with "## "; the piece holds the rest of that line and
\* the lines after it
RECURSIVE SplitSectionsAcc(_, _, _)
SplitSectionsAcc(lines, i, acc) ==
    IF i > Len(lines) THEN acc
    ELSE IF i >= 2 /\ StartsWith(lines[i], HeadingMarker)
         THEN SplitSectionsAcc(lines, i + 1,
                  Append(acc, <<Drop(lines[i], Len(HeadingMarker))>>))
         ELSE SplitSectionsAcc(lines, i + 1,
                  [acc EXCEPT ![Len(acc)] = Append(@, lines[i])])

SplitSections(lines) == SplitSectionsAcc(lines, 1, << <<>> >>)

IsBlank(line) == Strip(line) = <<>>

RECURSIVE DropBlankHead(_)
DropBlankHead(ls) ==
    IF ls # <<>> /\ IsBlank(Head(ls)) THEN DropBlankHead(Tail(ls)) ELSE ls

RECURSIVE DropBlankTail(_)
DropBlankTail(ls) ==
    IF ls # <<>> /\ IsBlank(ls[Len(ls)])
    THEN DropBlankTail(SubSeq(ls, 1, Len(ls) - 1)) ELSE ls

\* section.strip().split('\n')
SectionLines(section) ==
    LET core == DropBlankTail(DropBlankHead(section))
    IN  IF core = <<>> THEN << <<>> >>
        ELSE LET a == [core EXCEPT ![1] = LStripChars(@, Whitespace)]
             IN  [a EXCEPT ![Len(a)] = RStripChars(@, Whitespace)]

\* re.match(r'(.+?)\s*\[(.+?)\]', header) with group 1 = header[1..i]
HeaderBracket(h, i) ==
    CHOOSE j \in (i + 1)..(Len(h) + 1) :
        /\ \A m \in (i + 1)..(j - 1) : h[m] \in Whitespace
        /\ j <= Len(h) => h[j] \notin Whitespace

HeaderMatchAt(h, i) ==
    LET j == HeaderBracket(h, i)
    IN  /\ j <= Len(h)
        /\ h[j] = "["
        /\ \E k \in (j + 2)..Len(h) : h[k] = "]"

HeaderMatch(h) ==
    IF \E i \in 1..Len(h) : HeaderMatchAt(h, i)
    THEN LET i == CHOOSE x \in 1..Len(h) :
                      /\ HeaderMatchAt(h, x)
                      /\ \A y \in 1..(x - 1) : ~HeaderMatchAt(h, y)
             j == HeaderBracket(h, i)
             k == CHOOSE x \in (j + 2)..Len(h) :
                      /\ h[x] = "]"
                      /\ \A y \in (j + 2)..(x - 1) : h[y] # "]"
         IN  [matched |-> TRUE, title |-> SubSeq(h, 1, i),
              timestamp |-> SubSeq(h, j + 1, k - 1)]
    ELSE [matched |-> FALSE, title |-> <<>>, timestamp |-> <<>>]

\* _time_to_seconds, changed: the hours are weighted like the minutes
time_to_seconds_flat(time_str) ==
    LET parts == Split(time_str, ":")
        f(i) == Float(parts[i])
        Bad == [ok |-> FALSE, n |-> 0]
    IN  IF Len(parts) = 1
        THEN f(1)
        ELSE IF Len(parts) = 2
        THEN IF f(1).ok /\ f(2).ok
             THEN [ok |-> TRUE, n |-> f(1).n * 60 + f(2).n] ELSE Bad
        ELSE IF Len(parts) = 3
        THEN IF f(1).ok /\ f(2).ok /\ f(3).ok
             THEN [ok |-> TRUE, n |-> f(1).n * 60 + f(2).n * 60 + f(3).n]
             ELSE Bad
        ELSE Bad

\* _time_to_seconds: [ok |-> FALSE] stands for ValueError
time_to_seconds(time_str) ==
    LET parts == Split(time_str, ":")
        f(i) == Float(parts[i])
        Bad == [ok |-> FALSE, n |-> 0]
    IN  IF Len(parts) = 1
        THEN f(1)
        ELSE IF Len(parts) = 2
        THEN IF f(1).ok /\ f(2).ok
             THEN [ok |-> TRUE, n |-> f(1).n * 60 + f(2).n] ELSE Bad
        ELSE IF Len(parts) = 3
        THEN IF f(1).ok /\ f(2).ok /\ f(3).ok
             THEN [ok |-> TRUE, n |-> f(1).n * 3600 + f(2).n * 60 + f(3).n]
             ELSE Bad
        ELSE Bad

\* _parse_timestamp: [ok |-> FALSE] stands for ValueError
parse_timestamp(timestamp) ==
    LET parts == Split(timestamp, "-")
    IN  IF Len(parts) # 2
        THEN [ok |-> FALSE, start |-> 0, end |-> 0]
        ELSE LET start == time_to_seconds(Strip(parts[1]))
                 end == time_to_seconds(Strip(parts[2]))
             IN  IF start.ok /\ end.ok
                 THEN [ok |-> TRUE, start |-> start.n, end |-> end.n]
                 ELSE [ok |-> FALSE, start |-> 0, end |-> 0]

\* value.strip().strip('"').strip("'"), then the number it spells, if any
ParamValue(raw) ==
    LET v == StripChars(StripChars(Strip(raw), {"\""}), {"'"})
    IN  IF Float(v).ok THEN Num(Float(v).n) ELSE Str(v)

\* _parse_params, changed: a key that is already in the dict keeps its value
RECURSIVE parse_params_keep_first(_, _)
parse_params_keep_first(lines, params) ==
    IF lines = <<>> THEN params
    ELSE LET line == Strip(Head(lines))
         IN  IF line = <<>> \/ StartsWith(line, <<"#">>)
             THEN parse_params_keep_first(Tail(lines), params)
             ELSE IF Contains(line, ":")
             THEN LET kv == SplitOnce(line, ":")
                  IN  parse_params_keep_first(Tail(lines),
                          IF Strip(kv[1]) \in DOMAIN params THEN params
                          ELSE DictSet(params, Strip(kv[1]),
                                       ParamValue(kv[2])))
             ELSE parse_params_keep_first(Tail(lines), params)

\* _parse_params: the dict built from the lines, from the first to the last
RECURSIVE parse_params_from(_, _)
parse_params_from(lines, params) ==
    IF lines = <<>> THEN params
    ELSE LET line == Strip(Head(lines))
         IN  IF line = <<>> \/ StartsWith(line, <<"#">>)
             THEN parse_params_from(Tail(lines), params)
             ELSE IF Contains(line, ":")
             THEN LET kv == SplitOnce(line, ":")
                  IN  parse_params_from(Tail(lines),
                          DictSet(params, Strip(kv[1]), ParamValue(kv[2])))
             ELSE parse_params_from(Tail(lines), params)

parse_params(lines) == parse_params_from(lines, EmptyDict)

SlotKeys ==
    {<<"TEXT">>, <<"MODULE">>, <<"SCENE">>, <<"COMPONENT">>, <<"CLIP">>,
     <<"IMAGE">>, <<"CHART">>, <<"DATA">>}

\* Scene(...) with __post_init__
Scene(title, timestamp, start_time, end_time, duration, params) ==
    [title |-> Str(title),
     timestamp |-> Str(timestamp),
     start_time |-> start_time,
     end_time |-> end_time,
     duration |-> IF duration = 0 THEN end_time - start_time ELSE duration,
     text |-> DictPop(params, <<"TEXT">>, Str(<<>>)),
     module |-> DictPop(params, <<"MODULE">>, None),
     scene |-> DictPop(params, <<"SCENE">>, None),
     component |-> DictPop(params, <<"COMPONENT">>, None),
     clip |-> DictPop(params, <<"CLIP">>, None),
     image |-> DictPop(params, <<"IMAGE">>, None),
     chart |-> DictPop(params, <<"CHART">>, None),
     data |-> DictPop(params, <<"DATA">>, None),
     params |-> [k \in (DOMAIN params) \ SlotKeys |-> params[k]]]

\* _parse_section, changed: a header that does not match raises
parse_section_strict(section) ==
    LET lines == SectionLines(section)
        match == HeaderMatch(lines[1])
        times == parse_timestamp(Strip(match.timestamp))
    IN  IF ~match.matched THEN [kind |-> "raise"]
        ELSE IF ~times.ok THEN [kind |-> "raise"]
        ELSE [kind |-> "scene",
              scene |-> Scene(Strip(match.title), Strip(match.timestamp),
                              times.start, times.end,
                              times.end - times.start,
                              parse_params(Tail(lines)))]

\* _parse_section: kind "none" is `return None`, kind "raise" a ValueError
\* that leaves the method, kind "scene" the Scene returned
parse_section(section) ==
    LET lines == SectionLines(section)
        match == HeaderMatch(lines[1])
        times == parse_timestamp(Strip(match.timestamp))
    IN  IF ~match.matched THEN [kind |-> "none"]
        ELSE IF ~times.ok THEN [kind |-> "raise"]
        ELSE [kind |-> "scene",
              scene |-> Scene(Strip(match.title), Strip(match.timestamp),
                              times.start, times.end,
                              times.end - times.start,
                              parse_params(Tail(lines)))]

\* the loop of parse(): self.scenes and how the loop ended
RECURSIVE parse_loop(_, _)
parse_loop(sections, acc) ==
    IF sections = <<>> THEN [outcome |-> "returned", scenes |-> acc]
    ELSE LET r == parse_section(Head(sections))
         IN  IF r.kind = "raise"
             THEN [outcome |-> "ValueError", scenes |-> acc]
             ELSE IF r.kind = "scene"
             THEN parse_loop(Tail(sections), Append(acc, r.scene))
             ELSE parse_loop(Tail(sections), acc)

\* parse() on a parser whose scene list is `held`
parse(file, held) ==
    IF ~file.exists
    THEN [outcome |-> "FileNotFoundError", scenes |-> held]
    ELSE parse_loop(Tail(SplitSections(file.lines)), held)

\* max(scene.end_time for scene in self.scenes)
RECURSIVE MaxEnd(_)
MaxEnd(ss) ==
    IF Len(ss) = 1 THEN ss[1].end_time
    ELSE LET m == MaxEnd(Tail(ss))
         IN  IF ss[1].end_time >= m THEN ss[1].end_time ELSE m

get_total_duration(ss) == IF ss = <<>> THEN 0 ELSE MaxEnd(ss)

\* validate(), changed: a scene that starts exactly when the one before it
\* ends is warned about too
validate_inclusive(ss) ==
    [ok |-> ss # <<>>,
     warnings |->
        IF ss = <<>> THEN <<[ev |-> "no_scenes"]>>
        ELSE LET RECURSIVE Overlaps(_)
                 Overlaps(i) ==
                     IF i >= Len(ss) THEN <<>>
                     ELSE (IF ss[i].end_time >= ss[i + 1].start_time
                           THEN <<[ev |-> "overlap", first |-> i]>>
                           ELSE <<>>) \o Overlaps(i + 1)
             IN  Overlaps(1)]

\* validate(): the value returned and the overlap warnings printed
validate(ss) ==
    [ok |-> ss # <<>>,
     warnings |->
        IF ss = <<>> THEN <<[ev |-> "no_scenes"]>>
        ELSE LET RECURSIVE Overlaps(_)
                 Overlaps(i) ==
                     IF i >= Len(ss) THEN <<>>
                     ELSE (IF ss[i].end_time > ss[i + 1].start_time
                           THEN <<[ev |-> "overlap", first |-> i]>>
                           ELSE <<>>) \o Overlaps(i + 1)
             IN  Overlaps(1)]

-----------------------------------------------------------------------------
(* ModuleRegistry and the backend modules                                  *)

\* the module classes _register_modules imports, in its order
ModuleClasses ==
    <<[name |-> "ManimModule", module_type |-> Str(<<"manim">>)],
      [name |-> "RemotionModule", module_type |-> Str(<<"remotion">>)],
      [name |-> "ImageModule", module_type |-> Str(<<"images">>)]>>

\* module_class(self.config)
NewModule(cls) ==
    [t |-> "module", name |-> cls.name, module_type |-> cls.module_type]

\* register, changed: a tag that is taken keeps its module
register_keep_first(mods, cls) ==
    IF NewModule(cls).module_type \in DOMAIN mods THEN mods
    ELSE DictSet(mods, NewModule(cls).module_type, NewModule(cls))

\* ModuleRegistry.register: the dict self.modules afterwards
register(mods, cls) == DictSet(mods, NewModule(cls).module_type, NewModule(cls))

\* get_module: the key the method hands to self.modules.get
lookup_key(scene_data) ==
    IF "module" \in DOMAIN scene_data THEN scene_data.module
    ELSE IF "scene" \in DOMAIN scene_data THEN Str(<<"manim">>)
    ELSE IF "component" \in DOMAIN scene_data THEN Str(<<"remotion">>)
    ELSE IF "clip" \in DOMAIN scene_data THEN Str(<<"clips">>)
    ELSE IF "image" \in DOMAIN scene_data THEN Str(<<"images">>)
    ELSE IF "chart" \in DOMAIN scene_data \/ "data" \in DOMAIN scene_data
         THEN Str(<<"dataviz">>)
    ELSE Str(<<"slides">>)

\* get_module, changed: a tag that is not registered falls back to the hint
\* fields and the default
get_module_fallback(mods, scene_data) ==
    IF DictGet(mods, lookup_key(scene_data)) # None
    THEN DictGet(mods, lookup_key(scene_data))
    ELSE IF scene_data.scene # None THEN DictGet(mods, Str(<<"manim">>))
    ELSE IF scene_data.component # None THEN DictGet(mods, Str(<<"remotion">>))
    ELSE IF scene_data.clip # None THEN DictGet(mods, Str(<<"clips">>))
    ELSE IF scene_data.image # None THEN DictGet(mods, Str(<<"images">>))
    ELSE IF scene_data.chart # None \/ scene_data.data # None
         THEN DictGet(mods, Str(<<"dataviz">>))
    ELSE DictGet(mods, Str(<<"slides">>))

get_module(mods, scene_data) == DictGet(mods, lookup_key(scene_data))

list_modules(mods) == DOMAIN mods

\* scene.__dict__: the dict of all the fields of the dataclass instance
SceneDict(scene) == scene

\* what a call module.render(scene_data) can do: the external tool decides,
\* except that ImageModule.render raises on Path(None) and Path(<number>)
render_outcomes(module, scene_data) ==
    IF module.name = "ImageModule" /\ scene_data.image.t # "str"
    THEN {"raises"}
    ELSE {"returns", "raises"}

\* the path render returns: the module's output directory and the file stem
render_path(module, scene_data) ==
    [dir |-> module.module_type,
     stem |-> IF module.name = "ManimModule" THEN scene_data.scene
              ELSE IF module.name = "RemotionModule" THEN scene_data.component
              ELSE scene_data.image]

-----------------------------------------------------------------------------
(* Outline files                                                           *)

TitleLine == <<"#", " ", "Video">>

Heading(text) == HeadingMarker \o text

\* the sections the parser's client reads
SecIntro ==
    <<Heading(<<"Intro", " ", "[", "0", ":", "0", "0", "-",
                "0", ":", "1", "0", "]">>),
      <<"TEXT", ":", " ", "\"", "Hi", "\"">>,
      <<"SCENE", ":", " ", "Title">>>>

SecNext ==
    <<Heading(<<"Next", " ", "[", "1", "0", "-", "2", "0", "]">>),
      <<"MODULE", ":", " ", "manim">>>>

SecNotes ==
    <<Heading(<<"Notes">>),
      <<"SCENE", ":", " ", "Title">>>>

SecBack == <<Heading(<<"Back", " ", "[", "1", "0", "-", "5", "]">>)>>

SecStill == <<Heading(<<"Still", " ", "[", "5", "-", "5", "]">>)>>

SecTwoHyphens ==
    <<Heading(<<"Bad", " ", "[", "0", "-", "5", "-", "1", "0", "]">>)>>

SecNotNumeric == <<Heading(<<"Bad", " ", "[", "x", "-", "1", "0", "]">>)>>

\* starts before Intro ends
SecOver == <<Heading(<<"Over", " ", "[", "5", "-", "1", "5", "]">>)>>

\* MM:SS and HH:MM:SS times
SecLong ==
    <<Heading(<<"Long", " ", "[", "1", ":", "0", "5", "-",
                "0", "1", ":", "0", "2", ":", "0", "3", "]">>)>>

SecFourParts ==
    <<Heading(<<"Bad", " ", "[", "0", "-",
                "1", ":", "2", ":", "3", ":", "4", "]">>)>>

\* a recognized and an unrecognized key, each given twice
SecTwice ==
    <<Heading(<<"Twice", " ", "[", "2", "0", "-", "3", "0", "]">>),
      <<"SCENE", ":", " ", "First">>,
      <<"EFFECT", ":", " ", "zoom">>,
      <<"SCENE", ":", " ", "Second">>,
      <<"EFFECT", ":", " ", "pan">>>>

ParserSections ==
    {SecIntro, SecNext, SecNotes, SecBack, SecStill, SecTwoHyphens,
     SecNotNumeric, SecOver, SecLong, SecFourParts, SecTwice}

\* the sections the engine reads
SecExplicit ==
    <<Heading(<<"A", " ", "[", "0", "-", "1", "0", "]">>),
      <<"MODULE", ":", " ", "manim">>,
      <<"SCENE", ":", " ", "Title">>>>

SecHintsComponentFirst ==
    <<Heading(<<"B", " ", "[", "1", "0", "-", "2", "0", "]">>),
      <<"COMPONENT", ":", " ", "Card">>,
      <<"SCENE", ":", " ", "Graph">>>>

SecHintsSceneFirst ==
    <<Heading(<<"C", " ", "[", "2", "0", "-", "3", "0", "]">>),
      <<"SCENE", ":", " ", "Graph">>,
      <<"COMPONENT", ":", " ", "Card">>>>

SecPlain ==
    <<Heading(<<"D", " ", "[", "3", "0", "-", "4", "0", "]">>),
      <<"TEXT", ":", " ", "\"", "Hi", "\"">>>>

SecUnregistered ==
    <<Heading(<<"E", " ", "[", "4", "0", "-", "5", "0", "]">>),
      <<"MODULE", ":", " ", "clips">>,
      <<"SCENE", ":", " ", "Title">>>>

SecImageless ==
    <<Heading(<<"G", " ", "[", "5", "0", "-", "6", "0", "]">>),
      <<"MODULE", ":", " ", "images">>>>

EngineSections ==
    {SecExplicit, SecHintsComponentFirst, SecHintsSceneFirst, SecPlain,
     SecUnregistered, SecImageless, SecNotNumeric}

RECURSIVE Flatten(_)
Flatten(ss) == IF ss = <<>> THEN <<>> ELSE Head(ss) \o Flatten(Tail(ss))

SectionLists(kinds, n) == UNION {[1..k -> kinds] : k \in 0..n}

MissingFile == [exists |-> FALSE, lines |-> <<>>]

File(lines) == [exists |-> TRUE, lines |-> lines]

\* with a title line before the first heading, or starting at a heading
ParserOutlines ==
    {File(pre \o Flatten(ss)) :
        pre \in {<<>>, <<TitleLine>>},
        ss \in SectionLists(ParserSections, MaxSections)}
    \cup {MissingFile}

EngineOutlines ==
    {File(<<TitleLine>> \o Flatten(ss)) :
        ss \in SectionLists(EngineSections, MaxScenes)}
    \cup {MissingFile}

-----------------------------------------------------------------------------
(* The run of main(): VideoEngine(...), then engine.build(...)             *)

\* a console line: what it says, the scene it is about (0: none), a value
Event(ev, scene, val) == [ev |-> ev, scene |-> scene, val |-> val]

Init ==
    /\ pc = "start"
    /\ outline \in EngineOutlines
    /\ scenes = <<>>
    /\ results = <<>>
    /\ modules = EmptyDict
    /\ regIdx = 0
    /\ plan = <<>>
    /\ idx = 0
    /\ inflight = 0
    /\ rendered = <<>>
    /\ log = <<>>
    /\ exitCode = -1

\* VideoEngine.__init__ up to _register_modules: _load_config raises
\* FileNotFoundError when config.yaml is missing, and main exits with 1.
\* main reports a FileNotFoundError as "error" and every other exception as
\* "unexpected_error"
LoadConfig ==
    /\ pc = "start"
    /\ \E found \in BOOLEAN :
          IF found
          THEN /\ pc' = "register"
               /\ UNCHANGED <<log, exitCode>>
          ELSE /\ pc' = "exit"
               /\ log' = Append(log, Event("error", 0, None))
               /\ exitCode' = 1
    /\ UNCHANGED <<outline, scenes, results, modules, regIdx, plan, idx,
                   inflight, rendered>>

\* one try block of _register_modules: the import fails with ImportError
\* (caught, warned), the constructor raises something else (not caught: it
\* leaves VideoEngine() and main exits with 1), or the module is registered
RegisterModule ==
    /\ pc = "register"
    /\ regIdx < Len(ModuleClasses)
    /\ LET cls == ModuleClasses[regIdx + 1]
           last == regIdx + 1 = Len(ModuleClasses)
       IN  \E how \in {"registered", "ImportError", "raises"} :
              CASE how = "registered" ->
                     /\ modules' = register(modules, cls)
                     /\ regIdx' = regIdx + 1
                     /\ pc' = IF last THEN "build" ELSE "register"
                     /\ UNCHANGED <<log, exitCode>>
                [] how = "ImportError" ->
                     /\ log' = Append(log,
                                  Event("not_available", 0, cls.module_type))
                     /\ regIdx' = regIdx + 1
                     /\ pc' = IF last THEN "build" ELSE "register"
                     /\ UNCHANGED <<modules, exitCode>>
                [] how = "raises" ->
                     /\ log' = Append(log,
                                  Event("unexpected_error", 0, cls.module_type))
                     /\ exitCode' = 1
                     /\ pc' = "exit"
                     /\ UNCHANGED <<modules, regIdx>>
    /\ UNCHANGED <<outline, scenes, results, plan, idx, inflight, rendered>>

\* build, step 1: a new OutlineParser and its parse(); an exception leaves
\* build and main exits with 1
ParseOutline ==
    /\ pc = "build"
    /\ LET r == parse(outline, <<>>)
       IN  /\ scenes' = r.scenes
           /\ IF r.outcome = "returned"
              THEN /\ pc' = "validate"
                   /\ UNCHANGED <<log, exitCode>>
              ELSE /\ pc' = "exit"
                   /\ log' = Append(log,
                          Event(IF r.outcome = "FileNotFoundError"
                                THEN "error" ELSE "unexpected_error", 0, None))
                   /\ exitCode' = 1
    /\ UNCHANGED <<outline, results, modules, regIdx, plan, idx, inflight,
                   rendered>>

\* Validate, changed: the `return` after "Outline validation failed" is
\* missing, the build goes on with no scene
Validate_Lenient ==
    /\ pc = "validate"
    /\ LET v == validate(scenes)
           said == [i \in 1..Len(v.warnings) |->
                       Event(v.warnings[i].ev,
                             IF v.warnings[i].ev = "overlap"
                             THEN v.warnings[i].first ELSE 0, None)]
       IN  /\ log' = log \o said
                       \o <<Event(IF v.ok THEN "found" ELSE "validation_failed",
                                  Len(scenes),
                                  Num(get_total_duration(scenes)))>>
           /\ pc' = "plan"
           /\ UNCHANGED exitCode
    /\ UNCHANGED <<outline, scenes, results, modules, regIdx, plan, idx,
                   inflight, rendered>>

\* build, `if not parser.validate()`: on False build returns, and so does
\* main
Validate ==
    /\ pc = "validate"
    /\ LET v == validate(scenes)
           said == [i \in 1..Len(v.warnings) |->
                       Event(v.warnings[i].ev,
                             IF v.warnings[i].ev = "overlap"
                             THEN v.warnings[i].first ELSE 0, None)]
       IN  IF v.ok
           THEN /\ log' = log \o said
                            \o <<Event("found", Len(scenes),
                                       Num(get_total_duration(scenes)))>>
                /\ pc' = "plan"
                /\ UNCHANGED exitCode
           ELSE /\ log' = log \o said
                            \o <<Event("validation_failed", 0, None)>>
                /\ pc' = "exit"
                /\ exitCode' = 0
    /\ UNCHANGED <<outline, scenes, results, modules, regIdx, plan, idx,
                   inflight, rendered>>

\* _show_build_plan, changed: the plan names the module the hint fields
\* point to when the scene's tag resolves to none
plan_name_hints(mods, scene) ==
    LET module == get_module_fallback(mods, SceneDict(scene))
    IN  IF module = None THEN Str(<<"unknown">>) ELSE module.module_type

\* _show_build_plan: the module name printed for a scene
plan_name(mods, scene) ==
    LET module == get_module(mods, SceneDict(scene))
    IN  IF module = None THEN Str(<<"unknown">>) ELSE module.module_type

\* build, step 2
ShowBuildPlan ==
    /\ pc = "plan"
    /\ plan' = [i \in 1..Len(scenes) |-> plan_name(modules, scenes[i])]
    /\ pc' = "render"
    /\ UNCHANGED <<outline, scenes, results, modules, regIdx, idx, inflight,
                   rendered, log, exitCode>>

\* RenderNext, changed: a scene without a module is passed over without a
\* console line
RenderNext_Silent ==
    /\ pc = "render"
    /\ inflight = 0
    /\ idx < Len(scenes)
    /\ LET i == idx + 1
           module == get_module(modules, SceneDict(scenes[i]))
       IN  IF module = None
           THEN /\ idx' = i
                /\ UNCHANGED <<log, inflight>>
           ELSE /\ log' = Append(log,
                              Event("render_called", i, module.module_type))
                /\ inflight' = i
                /\ UNCHANGED idx
    /\ UNCHANGED <<pc, outline, scenes, results, modules, regIdx, plan,
                   rendered, exitCode>>

\* RenderNext, changed: the next scene's render is started without waiting
\* for the call in progress
RenderNext_Eager ==
    /\ pc = "render"
    /\ (IF inflight # 0 THEN inflight ELSE idx) < Len(scenes)
    /\ LET i == (IF inflight # 0 THEN inflight ELSE idx) + 1
           module == get_module(modules, SceneDict(scenes[i]))
       IN  IF module = None
           THEN /\ log' = Append(log, Event("no_module", i, None))
                /\ idx' = i
                /\ inflight' = 0
           ELSE /\ log' = Append(log,
                              Event("render_called", i, module.module_type))
                /\ inflight' = i
                /\ UNCHANGED idx
    /\ UNCHANGED <<pc, outline, scenes, results, modules, regIdx, plan,
                   rendered, exitCode>>

\* _render_scenes, the head of one iteration: the module is looked up; with
\* none the scene is skipped, else module.render is called
RenderNext ==
    /\ pc = "render"
    /\ inflight = 0
    /\ idx < Len(scenes)
    /\ LET i == idx + 1
           module == get_module(modules, SceneDict(scenes[i]))
       IN  IF module = None
           THEN /\ log' = Append(log, Event("no_module", i, None))
                /\ idx' = i
                /\ UNCHANGED inflight
           ELSE /\ log' = Append(log,
                              Event("render_called", i, module.module_type))
                /\ inflight' = i
                /\ UNCHANGED idx
    /\ UNCHANGED <<pc, outline, scenes, results, modules, regIdx, plan,
                   rendered, exitCode>>

\* the record appended to `rendered`; 'scene' refers to the i-th scene
render_record(i, module, scene_data) ==
    [scene |-> i, video_path |-> render_path(module, scene_data),
     module |-> module.module_type]

\* _render_scenes: module.render returned
RenderReturns ==
    /\ pc = "render"
    /\ inflight # 0
    /\ LET module == get_module(modules, SceneDict(scenes[inflight]))
       IN  /\ "returns" \in render_outcomes(module, SceneDict(scenes[inflight]))
           /\ rendered' = Append(rendered,
                  render_record(inflight, module, SceneDict(scenes[inflight])))
           /\ log' = Append(log, Event("rendered", inflight, module.module_type))
    /\ idx' = inflight
    /\ inflight' = 0
    /\ UNCHANGED <<pc, outline, scenes, results, modules, regIdx, plan,
                   exitCode>>

\* RenderRaises, changed: no try block, the exception leaves build and main
\* exits with 1
RenderRaises_Aborts ==
    /\ pc = "render"
    /\ inflight # 0
    /\ LET module == get_module(modules, SceneDict(scenes[inflight]))
       IN  /\ "raises" \in render_outcomes(module, SceneDict(scenes[inflight]))
           /\ log' = Append(log, Event("unexpected_error", inflight, None))
    /\ pc' = "exit"
    /\ exitCode' = 1
    /\ UNCHANGED <<outline, scenes, results, modules, regIdx, plan, idx,
                   inflight, rendered>>

\* RenderRaises, changed: the record is appended although render raised
RenderRaises_Records ==
    /\ pc = "render"
    /\ inflight # 0
    /\ LET module == get_module(modules, SceneDict(scenes[inflight]))
       IN  /\ "raises" \in render_outcomes(module, SceneDict(scenes[inflight]))
           /\ rendered' = Append(rendered,
                  render_record(inflight, module, SceneDict(scenes[inflight])))
           /\ log' = Append(log,
                         Event("render_failed", inflight, module.module_type))
    /\ idx' = inflight
    /\ inflight' = 0
    /\ UNCHANGED <<pc, outline, scenes, results, modules, regIdx, plan,
                   exitCode>>

\* _render_scenes: module.render raised, `except Exception`
RenderRaises ==
    /\ pc = "render"
    /\ inflight # 0
    /\ LET module == get_module(modules, SceneDict(scenes[inflight]))
       IN  /\ "raises" \in render_outcomes(module, SceneDict(scenes[inflight]))
           /\ log' = Append(log,
                         Event("render_failed", inflight, module.module_type))
    /\ idx' = inflight
    /\ inflight' = 0
    /\ UNCHANGED <<pc, outline, scenes, results, modules, regIdx, plan,
                   rendered, exitCode>>

\* _render_scenes returns
RenderDone ==
    /\ pc = "render"
    /\ inflight = 0
    /\ idx = Len(scenes)
    /\ pc' = "assemble"
    /\ UNCHANGED <<outline, scenes, results, modules, regIdx, plan, idx,
                   inflight, rendered, log, exitCode>>

\* _assemble_video: the path it returns, whatever was rendered
assemble_video(rendered_scenes) == Str(<<"final", ".", "mp4">>)

\* build, step 4 and the closing lines: "Video production complete!" and
\* "Output: <path>"
AssembleVideo ==
    /\ pc = "assemble"
    /\ log' = Append(log, Event("complete", 0, assemble_video(rendered)))
    /\ pc' = "done"
    /\ UNCHANGED <<outline, scenes, results, modules, regIdx, plan, idx,
                   inflight, rendered, exitCode>>

\* build returned, main returns
Exit ==
    /\ pc = "done"
    /\ exitCode' = 0
    /\ pc' = "exit"
    /\ UNCHANGED <<outline, scenes, results, modules, regIdx, plan, idx,
                   inflight, rendered, log>>

Next ==
    \/ LoadConfig
    \/ RegisterModule
    \/ ParseOutline
    \/ Validate
    \/ ShowBuildPlan
    \/ RenderNext
    \/ RenderReturns
    \/ RenderRaises
    \/ RenderDone
    \/ AssembleVideo
    \/ Exit

Spec == Init /\ [][Next]_vars

\* the run of main() as the interpreter executes it once validation has
\* passed: build() goes on to the next statement, and a render call in
\* progress returns or raises
SpecFair ==
    /\ Init
    /\ [][Next]_vars
    /\ WF_vars(ShowBuildPlan)
    /\ WF_vars(RenderNext)
    /\ WF_vars(RenderReturns \/ RenderRaises)
    /\ WF_vars(RenderDone)
    /\ WF_vars(AssembleVideo)

-----------------------------------------------------------------------------
(* A client of OutlineParser: one parser object, its methods called        *)

InitParser ==
    /\ pc = "client"
    /\ outline \in ParserOutlines
    /\ scenes = <<>>
    /\ results = <<>>
    /\ modules = EmptyDict
    /\ regIdx = 0
    /\ plan = <<>>
    /\ idx = 0
    /\ inflight = 0
    /\ rendered = <<>>
    /\ log = <<>>
    /\ exitCode = -1

\* parser.parse(): `results` keeps what the call returned, as it was when
\* the call returned, or the exception it raised
ClientParse ==
    /\ pc = "client"
    /\ Len(results) < MaxParseCalls
    /\ LET r == parse(outline, scenes)
       IN  /\ scenes' = r.scenes
           /\ results' = Append(results,
                  [outcome |-> r.outcome,
                   value |-> IF r.outcome = "returned" THEN r.scenes
                             ELSE <<>>])
    /\ log' = <<>>
    /\ UNCHANGED <<pc, outline, modules, regIdx, plan, idx, inflight,
                   rendered, exitCode>>

\* parser.validate(): `log` holds what the last call printed and returned
ClientValidate ==
    /\ pc = "client"
    /\ LET v == validate(scenes)
       IN  log' = [i \in 1..Len(v.warnings) |->
                      Event(v.warnings[i].ev,
                            IF v.warnings[i].ev = "overlap"
                            THEN v.warnings[i].first ELSE 0, None)]
                  \o <<Event("validate", 0, Num(IF v.ok THEN 1 ELSE 0))>>
    /\ UNCHANGED <<pc, outline, scenes, results, modules, regIdx, plan, idx,
                   inflight, rendered, exitCode>>

\* parser.get_total_duration()
ClientTotalDuration ==
    /\ pc = "client"
    /\ log' = <<Event("total_duration", 0, Num(get_total_duration(scenes)))>>
    /\ UNCHANGED <<pc, outline, scenes, results, modules, regIdx, plan, idx,
                   inflight, rendered, exitCode>>

NextParser ==
    \/ ClientParse
    \/ ClientValidate
    \/ ClientTotalDuration

SpecParser == InitParser /\ [][NextParser]_vars

-----------------------------------------------------------------------------
(* A client of ModuleRegistry: one registry object, its methods called     *)

\* the classes the client registers: the engine's three, another class with
\* the tag of ManimModule, and a class for the tag 'slides'
ClientClasses ==
    {ModuleClasses[c] : c \in 1..Len(ModuleClasses)}
    \cup {[name |-> "ManimDraftModule", module_type |-> Str(<<"manim">>)],
          [name |-> "SlidesModule", module_type |-> Str(<<"slides">>)]}

InitRegistry ==
    /\ pc = "registry"
    /\ outline = MissingFile
    /\ scenes = <<>>
    /\ results = <<>>
    /\ modules = EmptyDict
    /\ regIdx = 0
    /\ plan = <<>>
    /\ idx = 0
    /\ inflight = 0
    /\ rendered = <<>>
    /\ log = <<>>
    /\ exitCode = -1

\* registry.register(cls): the constructor raises and the dict is as it
\* was, or the new module object is stored; `results` keeps the call
ClientRegister ==
    /\ pc = "registry"
    /\ Len(results) < MaxRegisterCalls
    /\ \E cls \in ClientClasses, how \in {"registered", "raised"} :
          /\ modules' = IF how = "registered" THEN register(modules, cls)
                        ELSE modules
          /\ results' = Append(results, [outcome |-> how, value |-> cls])
    /\ log' = <<>>
    /\ UNCHANGED <<pc, outline, scenes, regIdx, plan, idx, inflight,
                   rendered, exitCode>>

\* registry.list_modules(): `log` holds what the last call returned (the
\* tags, without the order of the list)
ClientListModules ==
    /\ pc = "registry"
    /\ log' = <<[ev |-> "list_modules", scene |-> 0,
                 val |-> list_modules(modules)]>>
    /\ UNCHANGED <<pc, outline, scenes, results, modules, regIdx, plan, idx,
                   inflight, rendered, exitCode>>

NextRegistry ==
    \/ ClientRegister
    \/ ClientListModules

SpecRegistry == InitRegistry /\ [][NextRegistry]_vars

-----------------------------------------------------------------------------
(* Vocabulary of the properties                                            *)

\* the console lines of kind ev about scene i
Said(ev, i) == {k \in 1..Len(log) : log[k].ev = ev /\ log[k].scene = i}

\* the records of `rendered` that refer to scene i
RecordsOf(i) == {k \in 1..Len(rendered) : rendered[k].scene = i}

\* validation passed: the build reached the plan and render steps
PastValidation == \E k \in 1..Len(log) : log[k].ev = "found"

\* the scenes whose iteration of the render loop has ended
Processed == 1..idx

RenderOver == pc \in {"assemble", "done"} \/ (pc = "exit" /\ PastValidation)

IsRegistered(tag) == tag \in DOMAIN modules

Populated(v) == v # None

HasHint(s) ==
    \/ Populated(s.scene) \/ Populated(s.component) \/ Populated(s.clip)
    \/ Populated(s.image) \/ Populated(s.chart) \/ Populated(s.data)

\* the tag of the first populated hint field, in the priority order
FirstHintTag(s) ==
    IF Populated(s.scene) THEN Str(<<"manim">>)
    ELSE IF Populated(s.component) THEN Str(<<"remotion">>)
    ELSE IF Populated(s.clip) THEN Str(<<"clips">>)
    ELSE IF Populated(s.image) THEN Str(<<"images">>)
    ELSE Str(<<"dataviz">>)

\* what the render loop did with processed scene i, read off the console:
\* the tag of the module it called, or None when it found no module
ResolvedTag(i) ==
    IF Said("render_called", i) # {}
    THEN log[CHOOSE k \in Said("render_called", i) : TRUE].val
    ELSE None

-----------------------------------------------------------------------------
(* C1 *)

\* C1: partial-failure tolerance.  Whatever scenes' render calls raise, the
\* render loop handles every scene exactly once (one lookup, and one render
\* call exactly when a module was found), a scene whose render raised leaves
\* no record, a scene whose render returned leaves one, and the run goes on
\* to assembly and ends with status 0 instead of aborting.
C1_PartialFailureTolerance ==
    /\ pc = "render" =>
          \A i \in 1..Len(scenes) :
             /\ Cardinality(Said("no_module", i))
                  + Cardinality(Said("render_called", i))
                  = (IF i \in Processed \/ i = inflight THEN 1 ELSE 0)
             /\ Cardinality(Said("rendered", i))
                  + Cardinality(Said("render_failed", i))
                  = (IF i \in Processed
                     THEN Cardinality(Said("render_called", i)) ELSE 0)
    /\ RenderOver =>
          /\ idx = Len(scenes)
          /\ inflight = 0
          /\ \A i \in 1..Len(scenes) :
                /\ Cardinality(Said("no_module", i))
                     + Cardinality(Said("render_called", i)) = 1
                /\ Cardinality(Said("rendered", i))
                     + Cardinality(Said("render_failed", i))
                     = Cardinality(Said("render_called", i))
                /\ Said("render_failed", i) # {} => RecordsOf(i) = {}
                /\ Said("rendered", i) # {} => Cardinality(RecordsOf(i)) = 1
    /\ (pc = "exit" /\ PastValidation) =>
          /\ exitCode = 0
          /\ log[Len(log)].ev = "complete"

\* three scenes, the second raised, the first and the third have records
C1_Witness ==
    /\ pc = "done"
    /\ Len(scenes) = 3
    /\ Said("render_failed", 2) # {}
    /\ Len(rendered) = 2
    /\ rendered[1].scene = 1
    /\ rendered[2].scene = 3

-----------------------------------------------------------------------------
(* C2 *)

\* C2: at every point of a run the list of render records is exactly the
\* processed scenes, in parse order, for which a module was found and whose
\* render call returned: none for a skipped or failed scene, none missing,
\* none twice, each tagged with the type of the module that rendered it.
C2_RecordsAreSuccesses ==
    LET good == {i \in Processed :
                    /\ get_module(modules, SceneDict(scenes[i])) # None
                    /\ Said("rendered", i) # {}
                    /\ Said("render_failed", i) = {}}
    IN  /\ Len(rendered) = Cardinality(good)
        /\ \A k \in 1..Len(rendered) :
              /\ rendered[k].scene \in good
              /\ rendered[k].module
                   = get_module(modules,
                        SceneDict(scenes[rendered[k].scene])).module_type
              /\ rendered[k].module = ResolvedTag(rendered[k].scene)
        /\ \A k, l \in 1..Len(rendered) :
              k < l => rendered[k].scene < rendered[l].scene

\* a skipped scene, a failed scene and a rendered one: one record
C2_Witness ==
    /\ idx = 3
    /\ \E i, j \in Processed :
          /\ Said("no_module", i) # {}
          /\ Said("render_failed", j) # {}
    /\ Len(rendered) = 1

-----------------------------------------------------------------------------
(* C3 *)

\* C3: hint-priority resolution.  For every scene without an explicit tag
\* and with a populated hint field, the render loop resolves the module
\* registered under the tag of the first populated hint field (math scene,
\* UI component, clip, image, chart or data): it calls that module, and
\* skips the scene only when that tag is not registered.
C3_HintPriority ==
    \A i \in Processed :
       (scenes[i].module = None /\ HasHint(scenes[i])) =>
          IF IsRegistered(FirstHintTag(scenes[i]))
          THEN ResolvedTag(i) = FirstHintTag(scenes[i])
          ELSE Said("no_module", i) # {}

-----------------------------------------------------------------------------
(* C4 *)

\* C4: default fallback.  A scene with no explicit tag and no populated hint
\* field is looked up under the generic slide tag 'slides', and the render
\* loop calls the module registered under it when there is one.
C4_DefaultFallback ==
    \A i \in Processed :
       (scenes[i].module = None /\ ~HasHint(scenes[i])) =>
          /\ lookup_key(SceneDict(scenes[i])) = Str(<<"slides">>)
          /\ IF IsRegistered(Str(<<"slides">>))
             THEN ResolvedTag(i) = Str(<<"slides">>)
             ELSE Said("no_module", i) # {}

-----------------------------------------------------------------------------
(* C5 *)

\* C5: explicit-tag resolution.  A scene whose explicit tag is set is looked
\* up under that tag only, whatever hint fields it has: the module
\* registered under the tag is called, and when the tag is not registered
\* the scene is skipped with a warning, no module is called for it, and the
\* scenes after it are still processed.
C5_ExplicitTagOnly ==
    /\ \A i \in Processed :
          scenes[i].module # None =>
             IF IsRegistered(scenes[i].module)
             THEN /\ ResolvedTag(i) = scenes[i].module
                  /\ Said("no_module", i) = {}
             ELSE /\ Cardinality(Said("no_module", i)) = 1
                  /\ Said("render_called", i) = {}
                  /\ RecordsOf(i) = {}
    /\ RenderOver =>
          \A i \in 1..Len(scenes) :
             (scenes[i].module # None /\ ~IsRegistered(scenes[i].module)) =>
                \A j \in (i + 1)..Len(scenes) :
                   Said("no_module", j) \cup Said("render_called", j) # {}

\* an unregistered explicit tag with a populated hint whose module is
\* registered: skipped, and a later scene rendered
C5_Witness ==
    \E i, j \in Processed :
       /\ i < j
       /\ scenes[i].module = Str(<<"clips">>)
       /\ Populated(scenes[i].scene)
       /\ IsRegistered(Str(<<"manim">>))
       /\ Said("no_module", i) # {}
       /\ RecordsOf(j) # {}

-----------------------------------------------------------------------------
(* Vocabulary of the parser's properties                                   *)

\* the header texts of the heading lines ("## ...") from line `from` on
RECURSIVE HeaderTexts(_, _)
HeaderTexts(lines, from) ==
    IF from > Len(lines) THEN <<>>
    ELSE (IF StartsWith(lines[from], HeadingMarker)
          THEN <<Strip(Drop(lines[from], Len(HeadingMarker)))>>
          ELSE <<>>) \o HeaderTexts(lines, from + 1)

WellFormedHeader(h) == HeaderMatch(h).matched

\* the time range of a well-formed header is one the parser accepts
GoodTimes(h) == parse_timestamp(Strip(HeaderMatch(h).timestamp)).ok

TitleOf(h) == Str(Strip(HeaderMatch(h).title))

RECURSIVE Keep(_, _)
Keep(hs, wellFormed) ==
    IF hs = <<>> THEN <<>>
    ELSE (IF WellFormedHeader(Head(hs)) = wellFormed THEN <<Head(hs)>>
          ELSE <<>>) \o Keep(Tail(hs), wellFormed)

Titles(ss) == [i \in 1..Len(ss) |-> ss[i].title]

HeaderTitles(hs) == [i \in 1..Len(hs) |-> TitleOf(hs[i])]

\* the first parse() call of the client has ended, on a file that exists
FirstCallDone == Len(results) >= 1 /\ outline.exists

-----------------------------------------------------------------------------
(* C6 *)

\* C6, as claimed: when some section's first line does not match
\* '<title> [<time-range>]', parse fails and yields no scene at all.
C6_MalformedHeaderFatal ==
    (FirstCallDone
       /\ Keep(HeaderTexts(outline.lines, 2), FALSE) # <<>>) =>
          /\ results[1].outcome = "ValueError"
          /\ scenes = <<>>

\* C6, amended: a section whose first line does not match
\* '<title> [<time-range>]' is silently dropped.  Parse never fails on it (it
\* fails exactly when a section with a matching first line has a time range
\* it cannot read), and when parse returns, the scenes are those of the
\* sections with a matching first line, one each, in outline order.
C6_MalformedHeaderDropped ==
    FirstCallDone =>
       LET hs == HeaderTexts(outline.lines, 2)
           fine == Keep(hs, TRUE)
       IN  /\ results[1].outcome = "ValueError"
                <=> \E i \in 1..Len(fine) : ~GoodTimes(fine[i])
           /\ results[1].outcome = "returned"
                => Titles(results[1].value) = HeaderTitles(fine)

\* a section with a malformed header among sections that became scenes
C6_Witness ==
    /\ FirstCallDone
    /\ Keep(HeaderTexts(outline.lines, 2), FALSE) # <<>>
    /\ results[1].outcome = "returned"
    /\ Len(results[1].value) >= 1

-----------------------------------------------------------------------------
(* C7 *)

\* C7: timing invariant.  Every scene of a parse that returned has
\* end > start and a positive duration, and a section whose time range has
\* end <= start makes parse fail.
C7_TimingInvariant ==
    \A k \in 1..Len(results) :
       /\ results[k].outcome = "returned" =>
             \A i \in 1..Len(results[k].value) :
                /\ results[k].value[i].end_time > results[k].value[i].start_time
                /\ results[k].value[i].duration > 0
       /\ LET fine == Keep(HeaderTexts(outline.lines, 2), TRUE)
          IN  (\E i \in 1..Len(fine) :
                  LET times == parse_timestamp(
                                   Strip(HeaderMatch(fine[i]).timestamp))
                  IN  times.ok /\ times.end <= times.start)
              => results[k].outcome = "ValueError"

-----------------------------------------------------------------------------
(* C8 *)

\* C8: a malformed time range aborts with no partial results.  When parse
\* failed on the time range of a section, the parser's scene list holds no
\* scene of the sections before it: total_duration() is 0 and validate()
\* reports an empty outline.
C8_NoPartialResults ==
    (Len(results) = 1 /\ results[1].outcome = "ValueError") =>
       /\ results[1].value = <<>>
       /\ scenes = <<>>
       /\ get_total_duration(scenes) = 0
       /\ ~validate(scenes).ok

-----------------------------------------------------------------------------
(* C9 *)

\* C9: parse is deterministic and idempotent.  Every parse() call on the
\* same parser object and the same outline yields the same as the first
\* (same outcome, same scenes in the same order), and every scene has
\* duration = end - start.
C9_ParseIdempotent ==
    \A k \in 1..Len(results) :
       /\ results[k] = results[1]
       /\ \A i \in 1..Len(results[k].value) :
             results[k].value[i].duration
               = results[k].value[i].end_time - results[k].value[i].start_time

-----------------------------------------------------------------------------
(* C10 *)

\* C10: section coverage.  When parse returns, every heading section with a
\* well-formed header, the one on the first line of the file included, has
\* exactly one scene, in outline order; and the outline that starts at its
\* heading '## Intro [0:00-0:10]' parses to the one scene 'Intro' with
\* window (0, 10), duration 10 and math-scene hint 'Title'.
C10_SectionCoverage ==
    (FirstCallDone /\ results[1].outcome = "returned") =>
       /\ Titles(results[1].value)
            = HeaderTitles(Keep(HeaderTexts(outline.lines, 1), TRUE))
       /\ outline.lines = SecIntro =>
             /\ Len(results[1].value) = 1
             /\ results[1].value[1].title = Str(<<"Intro">>)
             /\ results[1].value[1].start_time = 0
             /\ results[1].value[1].end_time = 10
             /\ results[1].value[1].duration = 10
             /\ results[1].value[1].scene = Str(<<"Title">>)

-----------------------------------------------------------------------------
(* C11 *)

\* the last thing the client did was to call validate()
ValidateCalled == log # <<>> /\ log[Len(log)].ev = "validate"

\* the adjacent pairs (i, i+1) where scene i ends after scene i+1 starts
OverlapPairs ==
    {i \in 1..(Len(scenes) - 1) :
        scenes[i].end_time > scenes[i + 1].start_time}

\* C11: validation outcome.  validate() returns failure exactly when no
\* scene is held; with scenes it returns success, and it printed one overlap
\* warning for each adjacent pair whose first scene ends after the second
\* starts and nothing else; the scene list is still the one the last
\* parse() returned.
C11_ValidationOutcome ==
    ValidateCalled =>
       /\ log[Len(log)].val = Num(IF scenes = <<>> THEN 0 ELSE 1)
       /\ scenes # <<>> =>
             /\ \A i \in OverlapPairs : Cardinality(Said("overlap", i)) = 1
             /\ \A k \in 1..(Len(log) - 1) :
                   log[k].ev = "overlap" /\ log[k].scene \in OverlapPairs
       /\ (Len(results) >= 1 /\ results[Len(results)].outcome = "returned")
             => scenes = results[Len(results)].value

\* validate() was called on the scenes [0, 10) and [5, 15): success and one
\* warning
C11_Witness ==
    /\ ValidateCalled
    /\ Len(scenes) = 2
    /\ <<scenes[1].start_time, scenes[1].end_time>> = <<0, 10>>
    /\ <<scenes[2].start_time, scenes[2].end_time>> = <<5, 15>>
    /\ log = <<Event("overlap", 1, None), Event("validate", 0, Num(1))>>

-----------------------------------------------------------------------------
(* C12 *)

\* the stage of build() in a state of the run.  "NoRun": VideoEngine() has
\* not returned (or never will: main exited in it), build() was not called.
\* "Planned" is the render step before its first iteration.
StageOf(p, r, i, f, l) ==
    IF p \in {"start", "register"} THEN "NoRun"
    ELSE IF p = "build" THEN "Idle"
    ELSE IF p = "validate" THEN "Parsed"
    ELSE IF p = "plan" THEN "Validated"
    ELSE IF p = "render" THEN (IF i = 0 /\ f = 0 THEN "Planned" ELSE "Rendering")
    ELSE IF p = "assemble" THEN "Assembling"
    ELSE IF p = "done" THEN "Done"
    ELSE IF r < Len(ModuleClasses) THEN "NoRun"
    ELSE IF l # <<>> /\ l[Len(l)].ev = "complete" THEN "Done"
    ELSE "Aborted"

Stage == StageOf(pc, regIdx, idx, inflight, log)

StageOrder ==
    {<<"NoRun", "Idle">>, <<"Idle", "Parsed">>, <<"Parsed", "Validated">>,
     <<"Validated", "Planned">>, <<"Planned", "Rendering">>,
     <<"Rendering", "Assembling">>, <<"Assembling", "Done">>}

\* a step of the run that changes the stage
StageStep ==
    LET from == Stage
        to == StageOf(pc', regIdx', idx', inflight', log')
    IN  from # to =>
           \/ <<from, to>> \in StageOrder
           \/ /\ from = "Idle" /\ to = "Aborted"
              /\ log'[Len(log')].ev \in {"error", "unexpected_error"}
              /\ ~outline.exists \/ parse(outline, <<>>).outcome # "returned"
           \/ /\ from = "Parsed" /\ to = "Aborted"
              /\ scenes = <<>>

-----------------------------------------------------------------------------
(* C13 *)

\* C13: an empty outline is fatal.  When validation fails on an empty scene
\* list the run stops before the plan and before any render call, and the
\* process ends with a non-zero exit status, as it does after a missing
\* outline or a parse failure.
C13_EmptyOutlineFatal ==
    (pc = "exit" /\ Said("validation_failed", 0) # {}) =>
       /\ plan = <<>>
       /\ rendered = <<>>
       /\ \A k \in 1..Len(log) : log[k].ev # "render_called"
       /\ exitCode # 0

-----------------------------------------------------------------------------
(* C14 *)

\* the warning "<class> not available" was printed for the backend of tag
NotAvailable(tag) ==
    \E k \in 1..Len(log) : log[k].ev = "not_available" /\ log[k].val = tag

\* C14: backend registration is independently fallible.  A backend that
\* cannot be constructed, for whatever reason, is caught at registration:
\* main never exits while the backends are being registered, once they all
\* were handled each tag is either registered or was warned about, and a
\* scene that asks for a missing tag is skipped.
C14_RegistrationFallible ==
    /\ ~(pc = "exit" /\ 0 < regIdx /\ regIdx < Len(ModuleClasses))
    /\ ~(pc = "exit" /\ regIdx = 0
           /\ log[Len(log)].ev = "unexpected_error")
    /\ regIdx = Len(ModuleClasses) =>
          /\ \A c \in 1..Len(ModuleClasses) :
                IsRegistered(ModuleClasses[c].module_type)
                   # NotAvailable(ModuleClasses[c].module_type)
          /\ \A i \in Processed :
                (scenes[i].module # None /\ ~IsRegistered(scenes[i].module))
                   => Said("no_module", i) # {}

-----------------------------------------------------------------------------
(* C15 *)

\* the scenes the render loop skipped: no module found, or render raised
Unresolved == {i \in 1..Len(scenes) : Said("no_module", i) # {}}

FailedRenders == {i \in 1..Len(scenes) : Said("render_failed", i) # {}}

\* C15: final report.  When the run is Done its closing lines give the
\* location of the final video together with the number of rendered scenes
\* and the number of skipped scenes; the first is the number of Render
\* Records, the second the number of unresolved scenes plus the number of
\* failed renders, and they add up to the number of parsed scenes.
C15_FinalReport ==
    pc = "done" =>
       LET skipped == Cardinality(Unresolved) + Cardinality(FailedRenders)
       IN  /\ Len(rendered) + skipped = Len(scenes)
           /\ log[Len(log)].ev = "complete"
           /\ log[Len(log)].val = [path |-> assemble_video(rendered),
                                   rendered |-> Len(rendered),
                                   skipped |-> skipped]

\* C15, as the code has it: the closing lines of a Done run give the
\* location of the final video and no count.  The outcome of each scene is
\* on the console as its own line: the scenes with a Render Record, the
\* unresolved scenes and the scenes whose render raised are disjoint and
\* together they are all the parsed scenes.
C15_ReportIsLocationOnly ==
    pc = "done" =>
       LET recorded == {i \in 1..Len(scenes) : RecordsOf(i) # {}}
       IN  /\ log[Len(log)] = Event("complete", 0, assemble_video(rendered))
           /\ Len(rendered) = Cardinality(recorded)
           /\ recorded \cup Unresolved \cup FailedRenders = 1..Len(scenes)
           /\ recorded \cap Unresolved = {}
           /\ recorded \cap FailedRenders = {}
           /\ Unresolved \cap FailedRenders = {}

\* a Done run with a rendered, an unresolved and a failed scene
C15_Witness ==
    /\ pc = "done"
    /\ rendered # <<>>
    /\ Unresolved # {}
    /\ FailedRenders # {}

-----------------------------------------------------------------------------
(* C16 *)

\* the console lines of the render loop: the start of a scene's iteration
\* (module lookup failed, or render called) and the end of a render call
LoopStarts == {k \in 1..Len(log) : log[k].ev \in {"no_module", "render_called"}}

CallEnds(i) == Said("rendered", i) \cup Said("render_failed", i)

RenderCalls == {k \in 1..Len(log) : log[k].ev = "render_called"}

\* the render calls that have started and not ended
CallsInProgress ==
    {k \in RenderCalls : \A e \in CallEnds(log[k].scene) : e < k}

\* C16: strictly sequential rendering.  The render loop takes the scenes in
\* parse order, each once; a render call starts only when every earlier call
\* has returned or raised, so at most one call is in progress, and a call
\* ends only while it is the one in progress.
C16_SequentialRendering ==
    /\ \A j, k \in LoopStarts : j < k => log[j].scene < log[k].scene
    /\ {log[k].scene : k \in LoopStarts}
          = 1..(IF inflight # 0 THEN inflight ELSE idx)
    /\ Cardinality(CallsInProgress) <= 1
    /\ \A k \in CallsInProgress : inflight = log[k].scene
    /\ \A j, k \in RenderCalls :
          j < k => \E e \in CallEnds(log[j].scene) : j < e /\ e < k
    /\ \A i \in 1..Len(scenes) :
          /\ Cardinality(CallEnds(i)) <= Cardinality(Said("render_called", i))
          /\ \A e \in CallEnds(i) : \E k \in Said("render_called", i) : k < e

\* the second scene's render is in progress after the first scene's call
\* has ended
C16_Witness ==
    /\ inflight = 2
    /\ Said("render_called", 1) # {}
    /\ CallEnds(1) # {}
    /\ Said("render_called", 2) # {}
    /\ CallEnds(2) = {}

-----------------------------------------------------------------------------
(* C17 *)

\* the calls of register, in the client's history, that stored a module
\* under tag
RegisteredAs(tag) ==
    {k \in 1..Len(results) :
        results[k].outcome = "registered"
           /\ results[k].value.module_type = tag}

TagsRegistered ==
    {results[k].value.module_type : k \in
        {j \in 1..Len(results) : results[j].outcome = "registered"}}

\* the last of a non-empty set of calls
LastOf(calls) == CHOOSE k \in calls : \A j \in calls : j <= k

\* C17: registration.  After any sequence of register calls the registry
\* holds one module for each tag that was registered and for no other tag;
\* the module under a tag is the one the last registration under that tag
\* made, whatever was registered under other tags since; list_modules
\* returns the registered tags.
C17_LastRegistrationWins ==
    /\ DOMAIN modules = TagsRegistered
    /\ \A tag \in TagsRegistered :
          modules[tag] = NewModule(results[LastOf(RegisteredAs(tag))].value)
    /\ log # <<>> => log[1].val = TagsRegistered

\* two classes were registered under 'manim', then one under another tag,
\* and list_modules was called
C17_Witness ==
    /\ Cardinality(RegisteredAs(Str(<<"manim">>))) = 2
    /\ results[1].value.name # results[2].value.name
    /\ Len(results) = 3
    /\ results[3].outcome = "registered"
    /\ results[3].value.module_type = Str(<<"images">>)
    /\ log # <<>>

-----------------------------------------------------------------------------
(* C18 *)

\* the lines of the outline, after the first, that are headings
Headings ==
    {n \in 2..Len(outline.lines) : StartsWith(outline.lines[n], HeadingMarker)}

\* the headings that become scenes, and the i-th of them
SceneHeadings ==
    {n \in Headings :
        WellFormedHeader(Strip(Drop(outline.lines[n], Len(HeadingMarker))))}

SceneHeading(i) ==
    CHOOSE n \in SceneHeadings :
        Cardinality({m \in SceneHeadings : m <= n}) = i

\* the lines under heading n, up to the next heading
BodyOf(n) ==
    {j \in (n + 1)..Len(outline.lines) : \A m \in (n + 1)..j : m \notin Headings}

\* line j is a KEY: value line, its key, its value
IsParamLine(j) ==
    LET line == Strip(outline.lines[j])
    IN  line # <<>> /\ ~StartsWith(line, <<"#">>) /\ Contains(line, ":")

KeyAt(j) == Strip(SplitOnce(Strip(outline.lines[j]), ":")[1])

ValueAt(j) == ParamValue(SplitOnce(Strip(outline.lines[j]), ":")[2])

\* the lines under heading n that give key
Occurrences(n, key) == {j \in BodyOf(n) : IsParamLine(j) /\ KeyAt(j) = key}

\* the Scene slot of a recognized key, and what it holds without a line
Slot(scene, key) ==
    CASE key = <<"TEXT">> -> scene.text
      [] key = <<"MODULE">> -> scene.module
      [] key = <<"SCENE">> -> scene.scene
      [] key = <<"COMPONENT">> -> scene.component
      [] key = <<"CLIP">> -> scene.clip
      [] key = <<"IMAGE">> -> scene.image
      [] key = <<"CHART">> -> scene.chart
      [] key = <<"DATA">> -> scene.data

SlotDefault(key) == IF key = <<"TEXT">> THEN Str(<<>>) ELSE None

\* the scenes of the first parse(), when it returned: a slot holds the value
\* of the first (firstWins) or of the last occurrence of its key, no
\* recognized key is in extra_params, every other key is
SlotsTake(firstWins) ==
    (FirstCallDone /\ results[1].outcome = "returned") =>
       /\ Len(results[1].value) = Cardinality(SceneHeadings)
       /\ \A i \in 1..Len(results[1].value) :
             LET scene == results[1].value[i]
                 n == SceneHeading(i)
                 Pick(occ) ==
                     CHOOSE j \in occ :
                        \A m \in occ : IF firstWins THEN j <= m ELSE m <= j
             IN  /\ \A key \in SlotKeys :
                       Slot(scene, key) =
                          IF Occurrences(n, key) = {} THEN SlotDefault(key)
                          ELSE ValueAt(Pick(Occurrences(n, key)))
                 /\ DOMAIN scene.params \cap SlotKeys = {}
                 /\ \A j \in BodyOf(n) :
                       (IsParamLine(j) /\ KeyAt(j) \notin SlotKeys)
                          => KeyAt(j) \in DOMAIN scene.params

\* C18: duplicate keys in a section.  When a recognized key is given on
\* several lines of a section, the slot of the Scene takes the value of the
\* first of them; a recognized key is in its slot and not in extra_params,
\* and every unrecognized key is in extra_params.
C18_FirstOccurrenceWins == SlotsTake(TRUE)

\* C18, as the code has it: the slot takes the value of the last of the
\* lines that give the key, and so does an unrecognized key's entry of
\* extra_params.
C18_LastOccurrenceWins ==
    /\ SlotsTake(FALSE)
    /\ (FirstCallDone /\ results[1].outcome = "returned") =>
          \A i \in 1..Len(results[1].value) :
             \A key \in DOMAIN results[1].value[i].params :
                LET occ == Occurrences(SceneHeading(i), key)
                IN  /\ occ # {}
                    /\ results[1].value[i].params[key] =
                          ValueAt(CHOOSE j \in occ : \A m \in occ : m <= j)

\* a scene of a section that gives SCENE twice and EFFECT twice
C18_Witness ==
    /\ FirstCallDone
    /\ results[1].outcome = "returned"
    /\ \E i \in 1..Len(results[1].value) :
          /\ Cardinality(Occurrences(SceneHeading(i), <<"SCENE">>)) = 2
          /\ Cardinality(Occurrences(SceneHeading(i), <<"EFFECT">>)) = 2
          /\ results[1].value[i].scene = Str(<<"Second">>)

-----------------------------------------------------------------------------
(* C19 *)

\* the two time tokens of the header under heading n, when its time range
\* has one hyphen
TimeTokens(n) ==
    LET h == Strip(Drop(outline.lines[n], Len(HeadingMarker)))
    IN  Split(Strip(HeaderMatch(h).timestamp), "-")

\* a component of a time token spells a non-negative integer
IsNumeral(c) == Strip(c) # <<>> /\ \A i \in 1..Len(Strip(c)) : Strip(c)[i] \in Digits

\* a time token: at most three numerals between colons
ValidToken(tok) ==
    LET parts == Split(tok, ":")
    IN  Len(parts) <= 3 /\ \A i \in 1..Len(parts) : IsNumeral(parts[i])

\* the seconds of a valid token: each component counts sixty of the next
RECURSIVE Sexagesimal(_)
Sexagesimal(parts) ==
    IF Len(parts) = 1 THEN DecimalValue(Strip(parts[1]))
    ELSE 60 * Sexagesimal(SubSeq(parts, 1, Len(parts) - 1))
            + DecimalValue(Strip(parts[Len(parts)]))

Seconds(tok) == Sexagesimal(Split(tok, ":"))

\* the largest end time of the scenes held, 0 without scenes
LatestEnd ==
    IF scenes = <<>> THEN 0
    ELSE LET ends == {scenes[i].end_time : i \in 1..Len(scenes)}
         IN  CHOOSE m \in ends : \A e \in ends : e <= m

\* C19: time arithmetic.  A time token SS, MM:SS or HH:MM:SS of numerals is
\* worth SS, MM*60+SS, HH*3600+MM*60+SS seconds: these are the start and end
\* of the scene; a token with more than three components or with a
\* component that is no numeral makes parse fail; get_total_duration()
\* returns the largest end time of the scenes, 0 when there is none.
C19_TimeArithmetic ==
    /\ FirstCallDone =>
          /\ (\E n \in SceneHeadings :
                 /\ Len(TimeTokens(n)) = 2
                 /\ \E t \in 1..2 : ~ValidToken(Strip(TimeTokens(n)[t])))
                => results[1].outcome = "ValueError"
          /\ results[1].outcome = "returned" =>
                \A i \in 1..Len(results[1].value) :
                   LET tokens == TimeTokens(SceneHeading(i))
                   IN  /\ Len(tokens) = 2
                       /\ ValidToken(Strip(tokens[1]))
                       /\ ValidToken(Strip(tokens[2]))
                       /\ results[1].value[i].start_time
                             = Seconds(Strip(tokens[1]))
                       /\ results[1].value[i].end_time
                             = Seconds(Strip(tokens[2]))
    /\ (log # <<>> /\ log[1].ev = "total_duration")
          => log = <<Event("total_duration", 0, Num(LatestEnd))>>

\* the scene of "## Long [1:05-01:02:03]" runs from 65 to 3723, and
\* get_total_duration() returned 3723
C19_Witness ==
    /\ FirstCallDone
    /\ results[1].outcome = "returned"
    /\ \E i \in 1..Len(scenes) :
          /\ scenes[i].timestamp
                = Str(<<"1", ":", "0", "5", "-",
                        "0", "1", ":", "0", "2", ":", "0", "3">>)
          /\ scenes[i].start_time = 65
          /\ scenes[i].end_time = 3723
    /\ log = <<Event("total_duration", 0, Num(3723))>>

-----------------------------------------------------------------------------
(* C20 *)

\* the scenes the render loop has looked a module up for
LookedUp == 1..(IF inflight # 0 THEN inflight ELSE idx)

\* what the plan step and the steps after engine construction leave alone
PlanFrame ==
    /\ pc = "plan" =>
          /\ rendered' = rendered
          /\ modules' = modules
          /\ scenes' = scenes
          /\ log' = log
          /\ inflight' = 0
    /\ pc \notin {"start", "register"} => modules' = modules

\* the plan names, for each scene the render loop has reached, what the
\* loop resolved
PlanAgrees ==
    plan # <<>> =>
       /\ Len(plan) = Len(scenes)
       /\ \A i \in LookedUp :
             /\ plan[i] = IF ResolvedTag(i) = None THEN Str(<<"unknown">>)
                          ELSE ResolvedTag(i)
             /\ plan[i] = Str(<<"unknown">>) <=> Said("no_module", i) # {}

\* C20: plan and render agree.  The plan step calls no render, appends no
\* Render Record and leaves the registry and the scene list as they are,
\* and nothing is registered once the engine is constructed; so the module
\* name the plan shows for a scene is the tag the render loop resolves for
\* it, and the plan shows 'unknown' exactly for the scenes the loop skips
\* with "no module found".
C20_PlanMatchesRender ==
    /\ [][PlanFrame]_vars
    /\ []PlanAgrees

\* the loop skipped a scene planned as 'unknown' and called the module
\* planned for another
C20_Witness ==
    /\ pc = "render"
    /\ \E i \in LookedUp :
          plan[i] = Str(<<"unknown">>) /\ Said("no_module", i) # {}
    /\ \E i \in LookedUp :
          plan[i] = Str(<<"manim">>) /\ Said("render_called", i) # {}

=============================================================================
